---- MODULE Spec2Model ----
(***************************************************************************)
(* generate-brightness-lut.py: a command-line generator of a sine lookup   *)
(* table.  The script parses its arguments, sanity-checks them, fills the  *)
(* list `lut`, and prints it either as comma-separated values or as a C++  *)
(* array declaration.                                                      *)
(*                                                                         *)
(* Text is a sequence of one-character strings, so that formatting,        *)
(* regular-expression matching and printing act on characters.             *)
(*                                                                         *)
(* Real-valued arguments are fixed-point:                                  *)
(*   amplitude, frequency  whole numbers;                                  *)
(*   phase                 in half turns (phase = k means k * pi radians); *)
(*   shift                 in halves (shift = 3 means 1.5).                *)
(* math.sin is a fixed-point Taylor polynomial (unit 1/SinScale).  On the  *)
(* argument sets enumerated below int(round(y)) computed this way equals   *)
(* the value the double-precision computation of line 97-99 yields.        *)
(* Non-finite real arguments (inf, nan) are outside the modelled domain.   *)
(***************************************************************************)
EXTENDS Integers, Sequences, FiniteSets, TLC

VARIABLES args, pc, index, lut, out, err

vars == <<args, pc, index, lut, out, err>>

(* ------------------------------ bounds -------------------------------- *)

MaxLength == 4
MaxWrap == 2
MaxCutoff == 11
MaxAmplitude == 12
MaxFrequency == 2
MaxPhase == 1
MaxShift == 3
MaxTokenLen == 4

(* ------------------------------ characters ---------------------------- *)

NL == "\n"
\* a-z, A-Z and the underscore.
Letters ==
  {"a", "b", "c", "d", "e", "f", "g", "h", "i", "j", "k", "l",
   "m", "n", "o", "p", "q", "r", "s", "t", "u", "v", "w", "x", "y", "z",
   "A", "B", "C", "D", "E", "F", "G", "H", "I", "J", "K", "L",
   "M", "N", "O", "P", "Q", "R", "S", "T", "U", "V", "W", "X", "Y", "Z",
   "_"}
Digits == {"0", "1", "2", "3", "4", "5", "6", "7", "8", "9"}
TokenChars == {"a", "1", ":", " ", NL}

RECURSIVE SeqsUpTo(_, _)
SeqsUpTo(S, n) ==
  IF n = 0 THEN {<<>>}
  ELSE LET shorter == SeqsUpTo(S, n - 1)
       IN  shorter \cup {Append(s, c) : s \in {t \in shorter : Len(t) = n - 1}, c \in S}

(* --------------------------- regular expressions ---------------------- *)

\* [a-zA-Z_]
IsIdentStart(c) == c \in Letters

\* [a-zA-Z0-9_]
IsIdentChar(c) == c \in Letters \cup Digits

\* Python's `$` (no MULTILINE flag): at the end of the string, or just
\* before a newline that is the last character.  p is the next position
\* to be consumed.
AtDollar(s, p) == p = Len(s) + 1 \/ (p = Len(s) /\ s[p] = NL)

\* The positions after a match of [a-zA-Z_][a-zA-Z0-9_]* started at p.
IdentEnds(s, p) ==
  IF p > Len(s) \/ ~IsIdentStart(s[p]) THEN {}
  ELSE {q \in (p + 1)..(Len(s) + 1) : \A j \in (p + 1)..(q - 1) : IsIdentChar(s[j])}

\* The positions after a match of one group (?:::)?[a-zA-Z_][a-zA-Z0-9_]*
\* started at p.
GroupEnds(s, p) ==
  IdentEnds(s, p) \cup
  (IF p + 1 <= Len(s) /\ s[p] = ":" /\ s[p + 1] = ":" THEN IdentEnds(s, p + 2) ELSE {})

\* The positions after one or more groups started at position 1; n bounds
\* the number of groups (each group consumes at least one character).
RECURSIVE GroupsEnds(_, _, _)
GroupsEnds(s, from, n) ==
  IF n = 0 \/ from = {} THEN {}
  ELSE LET next == UNION {GroupEnds(s, p) : p \in from}
       IN  next \cup GroupsEnds(s, next, n - 1)

\* regex_cpp_identifier_with_scope.match(s)
regex_cpp_identifier_with_scope(s) ==
  \E q \in GroupsEnds(s, {1}, Len(s)) : AtDollar(s, q)

\* regex_cpp_identifier.match(s)
regex_cpp_identifier(s) ==
  \E q \in IdentEnds(s, 1) : AtDollar(s, q)

(* ------------------------------ formatting ---------------------------- *)

DigitChar(d) ==
  CASE d = 0 -> "0" [] d = 1 -> "1" [] d = 2 -> "2" [] d = 3 -> "3" [] d = 4 -> "4"
    [] d = 5 -> "5" [] d = 6 -> "6" [] d = 7 -> "7" [] d = 8 -> "8" [] d = 9 -> "9"

RECURSIVE StrNat(_)
StrNat(n) == IF n < 10 THEN <<DigitChar(n)>> ELSE Append(StrNat(n \div 10), DigitChar(n % 10))

\* str() of an int, as print() and str.format() render it.
Str(n) == IF n < 0 THEN <<"-">> \o StrNat(-n) ELSE StrNat(n)

(* ------------------------------ arithmetic ---------------------------- *)

SinScale == 10000
TwoPi == 62832

\* math.sin of num/den of a turn (den > 0), in units of 1/SinScale: the
\* angle is folded into the first quadrant and the Taylor polynomial of
\* degree 9 is evaluated there.
Sin(num, den) ==
  LET q == 4 * (num % den)
      sign == IF q <= 2 * den THEN 1 ELSE -1
      m == IF q <= den THEN q
           ELSE IF q <= 2 * den THEN 2 * den - q
           ELSE IF q <= 3 * den THEN q - 2 * den
           ELSE 4 * den - q
      x == (TwoPi * m) \div (4 * den)
      x2 == (x * x) \div SinScale
      t3 == (x * x2) \div SinScale
      t5 == (t3 * x2) \div SinScale
      t7 == (t5 * x2) \div SinScale
      t9 == (t7 * x2) \div SinScale
  IN  IF m = 0 THEN 0
      ELSE IF m = den THEN sign * SinScale
      ELSE sign * (x - (t3 \div 6) + (t5 \div 120) - (t7 \div 5040) + (t9 \div 362880))

\* round(n / d) for d > 0: to the nearest integer, ties to the even one.
Round(n, d) ==
  LET q == n \div d
      r == n - q * d
  IN  IF 2 * r < d THEN q
      ELSE IF 2 * r > d THEN q + 1
      ELSE IF q % 2 = 0 THEN q ELSE q + 1

Min(a, b) == IF a < b THEN a ELSE b
Max(a, b) == IF a > b THEN a ELSE b


\* Y with the shift added inside the product: amplitude * (sin + shift).
YShiftInside(a, i) ==
  a.amplitude * (Sin(a.frequency * (2 * i - a.phase * a.length), 2 * a.length)
                   + a.shift * (SinScale \div 2))

\* Lines 95-97: y in units of 1/SinScale.  x = i/length of a turn and the
\* phase is a.phase half turns, so frequency * (x - phase) is
\* frequency * (2i - phase * length) / (2 * length) of a turn.
Y(a, i) ==
  a.amplitude * Sin(a.frequency * (2 * i - a.phase * a.length), 2 * a.length)
    + a.shift * (SinScale \div 2)


\* constrained_y without the lower cutoff.
constrained_y_upper_only(a, i) == Min(a.upper_cutoff, Round(Y(a, i), SinScale))

\* Line 99.
constrained_y(a, i) ==
  Max(a.lower_cutoff, Min(a.upper_cutoff, Round(Y(a, i), SinScale)))

(* ------------------------------ arguments ----------------------------- *)

\* The defaults of lines 67-75.
DefaultDataType == <<"b", "y", "t", "e">>
DefaultAmplitude == 255
DefaultLowerCutoff == 0
DefaultUpperCutoff == 255
DefaultWrap == 20

Tokens == SeqsUpTo(TokenChars, MaxTokenLen)

\* Tokens paired with the swept one: one the checks accept and one they
\* reject.
SampleTokens == {<<"a">>, <<"1", "a">>}

Lengths == -1..MaxLength
Wraps == -1..MaxWrap
Cutoffs == {-MaxCutoff, 0, MaxCutoff}
Amplitudes == {0, 1, MaxAmplitude}
Frequencies == 0..MaxFrequency
Phases == 0..MaxPhase

\* Half-integral shifts are enumerated with amplitude 0 only; otherwise
\* the shift is a whole number (an even number of halves).
Shifts(amplitude) ==
  {s \in -MaxShift..MaxShift : amplitude = 0 \/ s % 2 = 0}

\* --values-only with --wrap: the wrap width is swept in the code output
\* mode, the only one that reads it.
Modes == {<<TRUE, DefaultWrap>>} \cup {<<FALSE, w>> : w \in Wraps}

\* The arguments of the numeric sweep: the tokens are valid ones, m is
\* the pair of --values-only and --wrap.
SweepArgs(l, a, f, p, s, lo, up, m) ==
  [length |-> l, data_type |-> DefaultDataType, name |-> <<"a">>, amplitude |-> a,
   frequency |-> f, phase |-> p, shift |-> s, lower_cutoff |-> lo, upper_cutoff |-> up,
   wrap |-> m[2], values_only |-> m[1]]

\* The arguments of the token sweep: the defaults apart from the two
\* tokens, a table of two entries, and the lower cutoff.
TokenArgs(d, n, lo, v) ==
  [length |-> 2, data_type |-> d, name |-> n, amplitude |-> DefaultAmplitude, frequency |-> 1,
   phase |-> 0, shift |-> 0, lower_cutoff |-> lo, upper_cutoff |-> DefaultUpperCutoff,
   wrap |-> DefaultWrap, values_only |-> v]

\* The lower cutoffs of the token sweep: the default, and one above the
\* upper cutoff.
TokenCutoffs == {DefaultLowerCutoff, DefaultUpperCutoff + 1}

\* The result of parser.parse_args(): the numeric arguments swept, or one
\* of the two tokens swept.
ParsedArgs(parsed) ==
  \/ \E l \in Lengths, a \in Amplitudes, f \in Frequencies, p \in Phases,
        lo \in Cutoffs, up \in Cutoffs, m \in Modes :
       \E s \in Shifts(a) : parsed = SweepArgs(l, a, f, p, s, lo, up, m)
  \/ \E d \in Tokens, n \in SampleTokens, lo \in TokenCutoffs, v \in BOOLEAN :
       parsed = TokenArgs(d, n, lo, v)
  \/ \E d \in SampleTokens, n \in Tokens, lo \in TokenCutoffs, v \in BOOLEAN :
       parsed = TokenArgs(d, n, lo, v)

(* ------------------------------ the script ---------------------------- *)

Init ==
  /\ ParsedArgs(args)
  /\ pc = "check"
  /\ index = 0
  /\ lut = <<>>
  /\ out = <<>>
  /\ err = ""

\* Lines 81-86: the first token the identifier checks reject, if any.
BadToken(a) ==
  IF a.values_only THEN ""
  ELSE IF ~regex_cpp_identifier_with_scope(a.data_type) THEN "--data-type"
  ELSE IF ~regex_cpp_identifier(a.name) THEN "--name"
  ELSE ""


\* CutoffsInverted rejecting equal cutoffs too.
CutoffsInvertedOrEqual(a) == a.lower_cutoff >= a.upper_cutoff

\* Line 88.
CutoffsInverted(a) == a.lower_cutoff > a.upper_cutoff

\* Lines 80-89: a failed check raises ValueError, which ends the script
\* before anything is printed.
SanityCheck ==
  /\ pc = "check"
  /\ IF BadToken(args) # ""
       THEN pc' = "error" /\ err' = BadToken(args)
       ELSE IF CutoffsInverted(args)
         THEN pc' = "error" /\ err' = "--lower-cutoff"
         ELSE pc' = "generate" /\ err' = err
  /\ UNCHANGED <<args, index, lut, out>>


\* InRange stopping one short: range(n - 1).
InRangeShort(i, n) == i < n - 1

\* i in range(n)
InRange(i, n) == i < n

\* Lines 93-101: one iteration of the generating loop.
Generate ==
  /\ pc = "generate"
  /\ InRange(index, args.length)
  /\ lut' = Append(lut, constrained_y(args, index))
  /\ index' = index + 1
  /\ UNCHANGED <<args, pc, out, err>>

\* Lines 93, 104: the loop is exhausted; the output mode is selected.
GenerateEnd ==
  /\ pc = "generate"
  /\ ~InRange(index, args.length)
  /\ pc' = IF args.values_only THEN "values" ELSE "code_open"
  /\ index' = 0
  /\ UNCHANGED <<args, lut, out, err>>


\* ValueSeparator without the space.
ValueSeparatorComma(i) == IF i # 0 THEN <<",">> ELSE <<>>

\* Lines 107-108: the separator before a value of the values-only output.
ValueSeparator(i) == IF i # 0 THEN <<",", " ">> ELSE <<>>

\* Lines 106-109: one iteration of the values-only loop.
PrintValue ==
  /\ pc = "values"
  /\ InRange(index, args.length)
  /\ out' = out \o ValueSeparator(index) \o Str(lut[index + 1])
  /\ index' = index + 1
  /\ UNCHANGED <<args, pc, lut, err>>

\* Line 110.
PrintValuesEnd ==
  /\ pc = "values"
  /\ ~InRange(index, args.length)
  /\ out' = Append(out, NL)
  /\ pc' = "done"
  /\ UNCHANGED <<args, index, lut, err>>

ConstInt == <<"c", "o", "n", "s", "t", " ", "i", "n", "t", " ">>
Const == <<"c", "o", "n", "s", "t", " ">>
LengthSuffix == <<"_", "L", "E", "N", "G", "T", "H", "{", " ">>
Open == <<"{", " ">>
CloseLength == <<" ", "}", ";">>
Close == <<"}", ";">>

\* Line 117: 'const int {0}_LENGTH{{ {1} }};'.format(name, length)
LengthDeclaration(a) ==
  ConstInt \o a.name \o LengthSuffix \o Str(a.length) \o CloseLength

\* Line 119: 'const {0} {1}{{ '.format(data_type, name)
ArrayOpening(a) == Const \o a.data_type \o <<" ">> \o a.name \o Open

\* Lines 117-119.
PrintOpening ==
  /\ pc = "code_open"
  /\ out' = out \o LengthDeclaration(args) \o <<NL>> \o ArrayOpening(args)
  /\ pc' = "code"
  /\ UNCHANGED <<args, index, lut, err>>

\* Lines 125-126.
CodeSeparator(i) == IF i > 0 THEN <<",", " ">> ELSE <<>>


\* WrapsAt without the line break before the first value.
WrapsAtAfterFirst(w, i) == w > 0 /\ i > 0 /\ (i % w) = 0

\* Line 130: whether a line break and an indent precede value i.
WrapsAt(w, i) == w > 0 /\ (i % w) = 0

\* Lines 130-132.
CodeWrap(w, i) == IF WrapsAt(w, i) THEN <<NL, " ", " ">> ELSE <<>>

\* Lines 122-134: one iteration of the code output loop.
PrintCodeValue ==
  /\ pc = "code"
  /\ InRange(index, args.length)
  /\ out' = out \o CodeSeparator(index) \o CodeWrap(args.wrap, index) \o Str(lut[index + 1])
  /\ index' = index + 1
  /\ UNCHANGED <<args, pc, lut, err>>


\* FinalBreak printing the line break when wrapping is disabled too.
FinalBreakAlways(w) == IF w >= 0 THEN <<NL>> ELSE <<>>

\* Lines 137-138.
FinalBreak(w) == IF w > 0 THEN <<NL>> ELSE <<>>

\* Lines 137-141.
PrintClosing ==
  /\ pc = "code"
  /\ ~InRange(index, args.length)
  /\ out' = out \o FinalBreak(args.wrap) \o Close \o <<NL>>
  /\ pc' = "done"
  /\ UNCHANGED <<args, index, lut, err>>

Next ==
  \/ SanityCheck
  \/ Generate
  \/ GenerateEnd
  \/ PrintValue
  \/ PrintValuesEnd
  \/ PrintOpening
  \/ PrintCodeValue
  \/ PrintClosing

Spec == Init /\ [][Next]_vars

(* ---------------------------- text utilities -------------------------- *)

\* str.split(sep): the pieces of s between the occurrences of sep, found
\* from left to right; p is the scanning position and start the position
\* where the current piece begins.
RECURSIVE SplitFrom(_, _, _, _)
SplitFrom(s, sep, p, start) ==
  IF p + Len(sep) - 1 > Len(s) THEN <<SubSeq(s, start, Len(s))>>
  ELSE IF SubSeq(s, p, p + Len(sep) - 1) = sep
    THEN <<SubSeq(s, start, p - 1)>> \o SplitFrom(s, sep, p + Len(sep), p + Len(sep))
    ELSE SplitFrom(s, sep, p + 1, start)

Split(s, sep) == SplitFrom(s, sep, 1, 1)

CommaSpace == <<",", " ">>
Whitespace == {" ", NL}

\* str.strip()
RECURSIVE Strip(_)
Strip(s) ==
  IF Len(s) = 0 THEN s
  ELSE IF s[1] \in Whitespace THEN Strip(Tail(s))
  ELSE IF s[Len(s)] \in Whitespace THEN Strip(SubSeq(s, 1, Len(s) - 1))
  ELSE s

DigitValue(c) ==
  CASE c = "0" -> 0 [] c = "1" -> 1 [] c = "2" -> 2 [] c = "3" -> 3 [] c = "4" -> 4
    [] c = "5" -> 5 [] c = "6" -> 6 [] c = "7" -> 7 [] c = "8" -> 8 [] c = "9" -> 9

Unsigned(s) == IF Len(s) > 0 /\ s[1] = "-" THEN Tail(s) ELSE s

\* Whether int(piece) returns: blanks around an optional minus sign and
\* at least one digit.
IsInteger(piece) ==
  LET d == Unsigned(Strip(piece))
  IN  Len(d) > 0 /\ \A j \in 1..Len(d) : d[j] \in Digits

RECURSIVE NatOf(_)
NatOf(d) ==
  IF Len(d) = 0 THEN 0 ELSE 10 * NatOf(SubSeq(d, 1, Len(d) - 1)) + DigitValue(d[Len(d)])

\* int(piece), for a piece with IsInteger(piece).
IntOf(piece) ==
  LET t == Strip(piece)
  IN  IF Len(t) > 0 /\ t[1] = "-" THEN -NatOf(Tail(t)) ELSE NatOf(t)

\* [int(piece) for piece in line.split(', ')]: ok tells whether every
\* conversion returns, values holds the integers when it does.
ParseValues(line) ==
  LET pieces == Split(line, CommaSpace)
  IN  [ok |-> \A k \in 1..Len(pieces) : IsInteger(pieces[k]),
       values |-> [k \in 1..Len(pieces) |->
                     IF IsInteger(pieces[k]) THEN IntOf(pieces[k]) ELSE 0]]

StartsWith(s, prefix) == Len(s) >= Len(prefix) /\ SubSeq(s, 1, Len(prefix)) = prefix
EndsWith(s, suffix) ==
  Len(s) >= Len(suffix) /\ SubSeq(s, Len(s) - Len(suffix) + 1, Len(s)) = suffix

\* A bare identifier: a letter or underscore, then letters, digits and
\* underscores.
IsBareIdentifier(s) ==
  /\ Len(s) >= 1
  /\ s[1] \in Letters
  /\ \A j \in 2..Len(s) : s[j] \in Letters \cup Digits

\* Bare identifiers separated by `::`, from position p to the end of s.
RECURSIVE IsScopedFrom(_, _)
IsScopedFrom(s, p) ==
  \E q \in (p + 1)..(Len(s) + 1) :
    /\ IsBareIdentifier(SubSeq(s, p, q - 1))
    /\ \/ q = Len(s) + 1
       \/ /\ q + 1 <= Len(s)
          /\ s[q] = ":"
          /\ s[q + 1] = ":"
          /\ IsScopedFrom(s, q + 2)

\* An identifier optionally scoped by `::`: foo, ::foo, ns::foo.
IsScopedIdentifier(s) ==
  \/ IsScopedFrom(s, 1)
  \/ StartsWith(s, <<":", ":">>) /\ IsScopedFrom(s, 3)

(* ------------------------------ properties ---------------------------- *)

Rendering == pc \in {"values", "code_open", "code", "done"}
ValidCutoffs == args.lower_cutoff <= args.upper_cutoff
Clamp(v) ==
  IF v < args.lower_cutoff THEN args.lower_cutoff
  ELSE IF v > args.upper_cutoff THEN args.upper_cutoff
  ELSE v

\* C1: every entry appended to the sample sequence lies within
\* [lower cutoff, upper cutoff], whatever the rounded sine value is.
C1_EntriesWithinCutoffs ==
  \A i \in 1..Len(lut) : args.lower_cutoff <= lut[i] /\ lut[i] <= args.upper_cutoff

\* The rounded value of entry i+1 before it is constrained.
Rounded(i) == Round(Y(args, i), SinScale)

\* C1 witness: a finished table holding an entry whose rounded value was
\* below the range, one inside it and one above it.
C1_Witness ==
  /\ pc = "done"
  /\ Len(lut) >= 3
  /\ \E i \in 0..(Len(lut) - 1) : Rounded(i) < args.lower_cutoff
  /\ \E i \in 0..(Len(lut) - 1) : Rounded(i) > args.upper_cutoff
  /\ \E i \in 0..(Len(lut) - 1) :
       args.lower_cutoff <= Rounded(i) /\ Rounded(i) <= args.upper_cutoff

\* C2: once the generating loop has finished the sample sequence has
\* exactly `length` entries if length > 0 and none if length <= 0; with
\* length <= 0 the loop body cannot run and the loop exit can, so that the
\* rendering step is reached.
C2_LengthOfTable ==
  /\ Rendering => Len(lut) = (IF args.length > 0 THEN args.length ELSE 0)
  /\ args.length <= 0 => lut = <<>>
  /\ (pc = "generate" /\ args.length <= 0) => (~ENABLED Generate /\ ENABLED GenerateEnd)

\* C2 witness: a run with a negative length has reached the end of the
\* rendering step.
C2_Witness == pc = "done" /\ args.length < 0 /\ lut = <<>> /\ out # <<>>

\* C3: with lower cutoff > upper cutoff the script ends in the error
\* state having printed nothing, in either output mode; with
\* lower cutoff <= upper cutoff the cutoff check never raises.
C3_InvertedCutoffsFail ==
  /\ args.lower_cutoff > args.upper_cutoff =>
       (out = <<>> /\ (pc # "check" => pc = "error"))
  /\ args.lower_cutoff <= args.upper_cutoff => err # "--lower-cutoff"

\* C3 witness: the cutoff check has raised in the code output mode.
C3_Witness ==
  /\ pc = "error"
  /\ err = "--lower-cutoff"
  /\ ~args.values_only
  /\ args.lower_cutoff > args.upper_cutoff

\* The text of the values-only output for the table: one line.
RECURSIVE Joined(_)
Joined(values) ==
  IF Len(values) = 0 THEN <<>>
  ELSE IF Len(values) = 1 THEN Str(values[1])
  ELSE Joined(SubSeq(values, 1, Len(values) - 1)) \o CommaSpace \o Str(values[Len(values)])

\* C4: the tokens are validated only in the code output mode: a data-type
\* token that is no identifier optionally scoped by `::` makes the script
\* fail without output there, while in the values-only mode any token is
\* accepted and, the cutoffs being valid, the values are printed.
C4_TokensCheckedInCodeModeOnly ==
  /\ (args.values_only /\ ValidCutoffs) =>
       (pc # "error" /\ (pc = "done" => out = Append(Joined(lut), NL)))
  /\ (~args.values_only /\ ~IsScopedIdentifier(args.data_type)) =>
       (out = <<>> /\ (pc # "check" => pc = "error"))

\* C5: in the code output mode the array-name token passes the check if
\* and only if it is a bare identifier; any other token is rejected with
\* an error and no output.
C5_NameIsBareIdentifier ==
  (~args.values_only /\ pc # "check") =>
    /\ err = "--name" => ~IsBareIdentifier(args.name)
    /\ ~IsBareIdentifier(args.name) => (pc = "error" /\ out = <<>>)

\* The values-only output is one line, and splitting it on `, ` and
\* converting the pieces to integers gives back the table.
RoundTrips ==
  /\ Len(out) >= 1
  /\ out[Len(out)] = NL
  /\ LET line == SubSeq(out, 1, Len(out) - 1)
         parsed == ParseValues(line)
     IN  /\ \A j \in 1..Len(line) : line[j] # NL
         /\ parsed.ok
         /\ parsed.values = lut

\* C6 as stated: the round trip holds for every table length the script
\* accepts.
C6_RoundTripEveryLength ==
  (pc = "done" /\ args.values_only) => RoundTrips

\* C6 as amended: the round trip holds for every table length > 0.
C6_RoundTripPositiveLength ==
  (pc = "done" /\ args.values_only /\ args.length > 0) => RoundTrips

\* C6 witness: a values-only output of several values, one of them
\* negative with two digits.
C6_Witness ==
  /\ pc = "done"
  /\ args.values_only
  /\ Len(lut) >= 3
  /\ \E i \in 1..Len(lut) : lut[i] <= -10
  /\ \E i \in 1..Len(lut) : lut[i] >= 10

\* The text printed after the opening of the array declaration.
AfterOpening ==
  SubSeq(out, Len(LengthDeclaration(args)) + 1 + Len(ArrayOpening(args)) + 1, Len(out))

\* Whether text is exactly the given values in decimal, separated by `, `.
IsValueList(text, values) ==
  LET pieces == Split(text, CommaSpace)
  IN  /\ Len(pieces) = Len(values)
      /\ \A k \in 1..Len(pieces) :
           /\ IsInteger(pieces[k])
           /\ Strip(pieces[k]) = pieces[k]
           /\ IntOf(pieces[k]) = values[k]

\* Value-line j (counted from 0) of a declaration wrapped at w: two
\* spaces, then the values w*j .. w*j + w - 1 of the table that exist,
\* each but the last of the table followed by `, `.
IsValueLine(line, j, w) ==
  LET first == w * j + 1
      last == Min(Len(lut), w * j + w)
      final == last = Len(lut)
      core == SubSeq(line, 3, IF final THEN Len(line) ELSE Len(line) - 2)
  IN  /\ StartsWith(line, <<" ", " ">>)
      /\ ~final => EndsWith(line, CommaSpace)
      /\ IsValueList(core, SubSeq(lut, first, last))

\* C7: in the code output mode with wrap width W > 0 a newline and a
\* two-space indent precede value i exactly when i is a multiple of W, so
\* that value i lies on value-line i \div W, every value-line starts with
\* two spaces and holds at most W values separated by `, `, and exactly
\* one newline separates the last value from the closing `};`.
C7_WrappedDeclaration ==
  (pc = "done" /\ ~args.values_only /\ args.wrap > 0) =>
    LET w == args.wrap
        lines == Split(AfterOpening, <<NL>>)
        n == (Len(lut) + w - 1) \div w
    IN  /\ Len(lines) = n + 3
        /\ lines[1] = <<>>
        /\ \A j \in 0..(n - 1) : IsValueLine(lines[j + 2], j, w)
        /\ lines[n + 2] = <<"}", ";">>
        /\ lines[n + 3] = <<>>

\* C7 witness: a declaration of three values wrapped at two, so that the
\* last value-line is not full.
C7_Witness ==
  /\ pc = "done"
  /\ ~args.values_only
  /\ args.wrap = 2
  /\ Len(lut) = 3
  /\ \E i \in 1..Len(lut) : lut[i] < 0

\* C8: in the code output mode with wrap width 0 the output is exactly
\* the two lines `const int <NAME>_LENGTH{ <length> };` and
\* `const <TYPE> <NAME>{ v0, v1, ..., v(n-1)};`: all values follow the
\* opening brace on its line, separated by `, `, no newline or indent
\* before a value and none between the last value and `};`.
C8_UnwrappedDeclaration ==
  (pc = "done" /\ ~args.values_only /\ args.wrap = 0) =>
    out = <<"c", "o", "n", "s", "t", " ", "i", "n", "t", " ">> \o args.name
            \o <<"_", "L", "E", "N", "G", "T", "H", "{", " ">> \o Str(args.length)
            \o <<" ", "}", ";", NL>>
            \o <<"c", "o", "n", "s", "t", " ">> \o args.data_type \o <<" ">> \o args.name
            \o <<"{", " ">> \o Joined(lut) \o <<"}", ";", NL>>

\* C8 witness: an unwrapped declaration of the longest table, with a
\* negative value in it.
C8_Witness ==
  /\ pc = "done"
  /\ ~args.values_only
  /\ args.wrap = 0
  /\ Len(lut) = MaxLength
  /\ \E i \in 1..Len(lut) : lut[i] < 0

\* C9: with amplitude 0 and vertical shift S every entry of the sample
\* sequence equals clamp(round(S), lower cutoff, upper cutoff), whatever
\* the length, the frequency and the phase are (the shift is in halves).
C9_ZeroAmplitude ==
  args.amplitude = 0 =>
    \A i \in 1..Len(lut) : lut[i] = Clamp(Round(args.shift, 2))

\* C9 witness: a finished table of amplitude 0 whose shift is a tie
\* between two integers inside the range, with a frequency and a phase
\* other than 0.
C9_Witness ==
  /\ pc = "done"
  /\ args.amplitude = 0
  /\ args.shift = 3
  /\ args.frequency > 0
  /\ args.phase > 0
  /\ Len(lut) = MaxLength
  /\ lut[1] = 2

\* The integer printed in the <NAME>_LENGTH constant, as text.
PrintedLength ==
  LET from == Len(ConstInt) + Len(args.name) + Len(LengthSuffix) + 1
  IN  Split(SubSeq(out, from, Len(out)), CloseLength)[1]

\* The number of values printed between the braces of the array.
PrintedValues ==
  LET inside == SubSeq(AfterOpening, 1, Len(AfterOpening) - Len(Close) - 1)
      pieces == Split(inside, <<",">>)
  IN  Cardinality({k \in 1..Len(pieces) : IsInteger(pieces[k])})

\* C10: in the code output mode, for every table length the script
\* accepts, the integer printed in the <NAME>_LENGTH constant equals the
\* number of values printed between the braces of the array declaration.
C10_LengthConstantCountsValues ==
  (pc = "done" /\ ~args.values_only) =>
    (IsInteger(PrintedLength) /\ IntOf(PrintedLength) = PrintedValues)

====
